---- MODULE Spec2Model ----
(***************************************************************************)
(* The message delivery pipeline of the WhatsApp CRM backend: the bulk     *)
(* campaign Runner (app/service/campaign_worker.py), the trigger endpoint  *)
(* (app/routes/campaigns.py) and the webhook Ingestor                      *)
(* (app/routes/webhooks.py), all over the shared relational ledger         *)
(* (app/models.py) and the Redis quota counter.                            *)
(***************************************************************************)
EXTENDS Integers, Sequences, FiniteSets, TLC

\* ------------------------------------------------------------------ bounds
\* External events (trigger calls, webhook posts, counter-store faults, date
\* changes) in one behaviour, and the tenant's daily quota.
MaxEvents == 3
DailyQuota == 1
\* The longest hub.challenge of a handshake request, in characters.
MaxChallengeLen == 3

\* ------------------------------------------------------- program constants
MaxRetries == 3
CommitEvery == 10
QuotaTtl == 90000

\* ---------------------------------------------------------------- universe
Biz == {"b1", "b2"}
Campaigns == {"c1"}
Phones == {1, 2, 3}
Runners == {1, 2}
Handlers == {1}
Days == 0..MaxEvents
NoBiz == "none"
NoCampaign == "none"
NoContact == "None"

\* The tenant owning a campaign (Campaign.business_id).
CampaignBiz(c) == "b1"

\* Business.phone_number_id of each tenant; the lookup of webhooks.py line 85.
PhoneNumberId(b) == IF b = "b1" THEN "pn1" ELSE "pn2"

BizByPhoneNumberId(pnid) ==
    IF \E b \in Biz : PhoneNumberId(b) = pnid
    THEN CHOOSE b \in Biz : PhoneNumberId(b) = pnid
    ELSE NoBiz

\* ----------------------------------------------------------------- helpers
RECURSIVE SortedSeq(_)
SortedSeq(S) ==
    IF S = {} THEN <<>>
    ELSE LET m == CHOOSE x \in S : \A y \in S : x <= y
         IN <<m>> \o SortedSeq(S \ {m})

VARIABLES
    contacts,    \* contacts table: [Biz \X Phones -> status or NoContact]
    messages,    \* messages table, committed rows in insertion order
    logs,        \* webhook_logs table: sequence of stored payloads
    campaign,    \* campaigns table: [Campaigns -> row]
    quota,       \* Redis counters: [Biz \X Days -> Nat]
    ttl,         \* Redis expiries: [Biz \X Days -> 0 or QuotaTtl]
    queue,       \* Celery broker: bag of jobs [<<campaign, retries>> -> Nat]
    rs,          \* Runner invocations (Celery worker slots)
    hs,          \* webhook requests in flight
    day,         \* the current UTC day
    nextMid,     \* next provider-issued id for an outbound message
    attempted,   \* history: (campaign, phone) pairs a send was attempted for
    trigLog,     \* history: statuses at which a trigger enqueued a job
    nev,         \* history: the number of external events so far
    hk,          \* the last webhook handshake: its query and its response
    calls        \* history: send calls each tenant made on the current UTC day

vars == <<contacts, messages, logs, campaign, quota, ttl, queue, rs, hs, day,
          nextMid, attempted, trigLog, nev, hk, calls>>

Jobs == Campaigns \X (0..MaxRetries)

IdleRunner ==
    [pc |-> "idle", camp |-> NoCampaign, retries |-> 0, key |-> 0,
     list |-> <<>>, idx |-> 0, sent |-> 0, failed |-> 0, pend |-> <<>>,
     usage |-> 0, cstat |-> NoContact, seen |-> NoContact, code |-> 0]

IdleHandler ==
    [pc |-> "idle", body |-> "none", signed |-> FALSE, vi |-> 0, ii |-> 0,
     created |-> {}, optOuts |-> {}, flushed |-> <<>>, pend |-> <<>>,
     upd |-> {}, failed |-> FALSE, logged |-> 0, known |-> {}, resp |-> 0]

NoHandshake ==
    [mode |-> "None", token |-> "None", challenge |-> <<>>, status |-> 0,
     body |-> <<>>]

NewCampaign ==
    [status |-> "Draft", status_reason |-> "", total_sent |-> 0,
     total_failed |-> 0, started_at |-> 0, completed_at |-> 0]

Init ==
    /\ contacts = [k \in Biz \X Phones |->
                     IF k[1] = "b1" /\ k[2] \in {1, 2} THEN "Active" ELSE NoContact]
    /\ messages = <<>>
    /\ logs = <<>>
    /\ campaign = [c \in Campaigns |-> NewCampaign]
    /\ quota = [k \in Biz \X Days |-> 0]
    /\ ttl = [k \in Biz \X Days |-> 0]
    /\ queue = [j \in Jobs |-> 0]
    /\ rs = [r \in Runners |-> IdleRunner]
    /\ hs = [h \in Handlers |-> IdleHandler]
    /\ day = 0
    /\ nextMid = 100
    /\ attempted = {}
    /\ trigLog = {}
    /\ nev = 0
    /\ hk = NoHandshake
    /\ calls = [b \in Biz |-> 0]

\* ------------------------------------------------------- trigger endpoint
\* trigger_campaign_send: only the status "Sent" is rejected (HTTP 400);
\* otherwise the campaign is set to Queued, committed, and a job is enqueued.
TriggerRejects(status) == status = "Sent"

trigger_campaign_send(c) ==
    /\ nev < MaxEvents
    /\ nev' = nev + 1
    /\ IF TriggerRejects(campaign[c].status)
       THEN UNCHANGED <<campaign, queue, trigLog>>
       ELSE /\ campaign' = [campaign EXCEPT ![c].status = "Queued"]
            /\ queue' = [queue EXCEPT ![<<c, 0>>] = @ + 1]
            /\ trigLog' = trigLog \cup {campaign[c].status}
    /\ UNCHANGED <<contacts, messages, logs, quota, ttl, rs, hs, day, nextMid,
                   attempted, hk, calls>>

\* ------------------------------------------------------------- the Runner
\* get_quota_key: "quota:<business>:<utc date>".
get_quota_key(b) == <<b, day>>

\* The contact query of lines 48-54 (no group filter): the tenant's Active contacts.
EligibleContacts(b) ==
    SortedSeq({p \in Phones : contacts[<<b, p>>] = "Active"})

\* Mutant: no re-fetch; the status loaded by the contact query is reused.
RefreshStatusStale(b, p) == "Active"

\* db.refresh(contact): the committed status of the contact row.
RefreshStatus(b, p) == contacts[<<b, p>>]

\* Line 70: is there a Message row for (campaign, contact)?
MessageExists(c, p) ==
    \E i \in DOMAIN messages :
        /\ messages[i].camp = c
        /\ messages[i].biz = CampaignBiz(c)
        /\ messages[i].phone = p

\* Mutant: off by one, the increment that reaches the quota is denied.
QuotaExceededOffByOne(usage, dailyQuota) == usage >= dailyQuota

\* Line 77: the quota check on the value the increment returned.
QuotaExceeded(usage, dailyQuota) == usage > dailyQuota

\* Lines 117-118: the periodic commit.
PeriodicCommit(sent) == sent % CommitEvery = 0

\* The loop head: the next contact of the list, or the code after the loop.
NextIter(rec) ==
    [rec EXCEPT !.idx = rec.idx + 1,
                !.pc = IF rec.idx + 1 > Len(rec.list) THEN "finish" ELSE "refresh",
                !.usage = 0, !.cstat = NoContact, !.seen = NoContact,
                !.code = 0]

CurPhone(r) == rs[r].list[rs[r].idx]

\* Mutant: the Message is recorded without the provider's id.
OutMessageNoId(c, p, mid) ==
    [biz |-> CampaignBiz(c), phone |-> p, camp |-> c, mid |-> 0,
     dir |-> "Out", status |-> "Sent"]

\* Lines 101-108: the Message recorded for an accepted send.
OutMessage(c, p, mid) ==
    [biz |-> CampaignBiz(c), phone |-> p, camp |-> c, mid |-> mid,
     dir |-> "Out", status |-> "Sent"]

\* Lines 28-59: load campaign and business, set Running, commit, resolve the
\* contact list and read the stored counters.
RunnerStart(r, job) ==
    LET c == job[1]
        b == CampaignBiz(c)
        lst == EligibleContacts(b)
    IN  /\ rs[r].pc = "idle"
        /\ \A q \in Runners : rs[q].pc = "idle" => r <= q
        /\ queue[job] > 0
        /\ queue' = [queue EXCEPT ![job] = @ - 1]
        /\ campaign' = [campaign EXCEPT ![c].status = "Running",
                                        ![c].started_at = day + 1]
        /\ rs' = [rs EXCEPT ![r] =
                    [IdleRunner EXCEPT
                        !.pc = IF lst = <<>> THEN "finish" ELSE "refresh",
                        !.camp = c, !.retries = job[2],
                        !.key = get_quota_key(b)[2],
                        !.list = lst, !.idx = 1,
                        !.sent = campaign[c].total_sent,
                        !.failed = campaign[c].total_failed]]
        /\ UNCHANGED <<contacts, messages, logs, quota, ttl, hs, day, nextMid,
                       attempted, trigLog, nev, hk, calls>>

\* Lines 65-68: re-fetch the contact and skip it unless Active.
RunnerRefresh(r) ==
    LET b == CampaignBiz(rs[r].camp)
        st == RefreshStatus(b, CurPhone(r))
    IN  /\ rs[r].pc = "refresh"
        /\ rs' = [rs EXCEPT ![r] =
                    IF st # "Active" THEN NextIter(rs[r])
                    ELSE [rs[r] EXCEPT !.pc = "exists", !.cstat = st, !.code = 0,
                                       !.seen = contacts[<<b, CurPhone(r)>>]]]
        /\ UNCHANGED <<contacts, messages, logs, campaign, quota, ttl, queue,
                       hs, day, nextMid, attempted, trigLog, nev, hk, calls>>

\* Lines 70-71: skip a contact that already has a Message of this campaign.
RunnerExists(r) ==
    /\ rs[r].pc = "exists"
    /\ rs' = [rs EXCEPT ![r] =
                IF MessageExists(rs[r].camp, CurPhone(r)) THEN NextIter(rs[r])
                ELSE [rs[r] EXCEPT !.pc = "quota"]]
    /\ UNCHANGED <<contacts, messages, logs, campaign, quota, ttl, queue, hs,
                   day, nextMid, attempted, trigLog, nev, hk, calls>>

\* Mutant: an increment of a key that already exists is lost.
incrLost(store, k) == IF store[k] = 0 THEN 1 ELSE store[k]

\* Line 73, redis_client.incr(quota_key): one atomic command that adds one
\* to the counter (0 when the key is absent) and returns the new value.
incr(store, k) == store[k] + 1

\* Lines 73-81: INCR, EXPIRE on the first increment, and the quota check;
\* over quota the campaign is Paused, the session committed, the task ends.
RunnerQuota(r) ==
    LET c == rs[r].camp
        k == <<CampaignBiz(c), rs[r].key>>
        current_usage == incr(quota, k)
    IN  /\ rs[r].pc = "quota"
        /\ quota' = [quota EXCEPT ![k] = current_usage]
        /\ ttl' = IF current_usage = 1 THEN [ttl EXCEPT ![k] = QuotaTtl] ELSE ttl
        /\ IF QuotaExceeded(current_usage, DailyQuota)
           THEN /\ campaign' = [campaign EXCEPT ![c].status = "Paused",
                                                ![c].status_reason = "Quota reached."]
                /\ messages' = messages \o rs[r].pend
                /\ rs' = [rs EXCEPT ![r] = IdleRunner]
           ELSE /\ rs' = [rs EXCEPT ![r].pc = "send", ![r].usage = current_usage]
                /\ UNCHANGED <<campaign, messages>>
        /\ UNCHANGED <<contacts, logs, queue, hs, day, nextMid, attempted,
                       trigLog, nev, hk, calls>>

\* Lines 98-109, 117-118: the provider answers 200; the Out Message is added
\* to the session and sent_count grows; commit when sent_count % 10 = 0.
RunnerSendOk(r) ==
    LET c == rs[r].camp
        p == CurPhone(r)
        pend2 == Append(rs[r].pend, OutMessage(c, p, nextMid))
        sent2 == rs[r].sent + 1
    IN  /\ rs[r].pc = "send"
        /\ nextMid' = nextMid + 1
        /\ calls' = [calls EXCEPT ![CampaignBiz(c)] = @ + 1]
        /\ attempted' = attempted \cup {<<c, p>>}
        /\ IF PeriodicCommit(sent2)
           THEN /\ messages' = messages \o pend2
                /\ rs' = [rs EXCEPT ![r] =
                            NextIter([rs[r] EXCEPT !.sent = sent2, !.pend = <<>>])]
           ELSE /\ messages' = messages
                /\ rs' = [rs EXCEPT ![r] =
                            NextIter([rs[r] EXCEPT !.sent = sent2, !.pend = pend2])]
        /\ UNCHANGED <<contacts, logs, campaign, quota, ttl, queue, hs, day,
                       trigLog, nev, hk>>

\* Lines 110-113: the provider answers 429; Paused, commit, the task ends.
RunnerSendRateLimited(r) ==
    LET c == rs[r].camp
    IN  /\ rs[r].pc = "send"
        /\ calls' = [calls EXCEPT ![CampaignBiz(c)] = @ + 1]
        /\ attempted' = attempted \cup {<<c, CurPhone(r)>>}
        /\ campaign' = [campaign EXCEPT ![c].status = "Paused"]
        /\ messages' = messages \o rs[r].pend
        /\ rs' = [rs EXCEPT ![r] = IdleRunner]
        /\ UNCHANGED <<contacts, logs, quota, ttl, queue, hs, day, nextMid,
                       trigLog, nev, hk>>

\* Status codes of a refused send: invalid credential, provider error.
FailureCodes == {401, 500}

\* Lines 114-118: any other status code; failed_count grows, then the
\* periodic commit test on sent_count. "code" keeps the status code of the
\* response until the Runner's next step.
RunnerSendFailed(r, code) ==
    LET c == rs[r].camp
    IN  /\ rs[r].pc = "send"
        /\ calls' = [calls EXCEPT ![CampaignBiz(c)] = @ + 1]
        /\ attempted' = attempted \cup {<<c, CurPhone(r)>>}
        /\ IF PeriodicCommit(rs[r].sent)
           THEN /\ messages' = messages \o rs[r].pend
                /\ rs' = [rs EXCEPT ![r] =
                            [NextIter([rs[r] EXCEPT !.failed = @ + 1, !.pend = <<>>])
                                EXCEPT !.code = code]]
           ELSE /\ messages' = messages
                /\ rs' = [rs EXCEPT ![r] =
                            [NextIter([rs[r] EXCEPT !.failed = @ + 1])
                                EXCEPT !.code = code]]
        /\ UNCHANGED <<contacts, logs, campaign, quota, ttl, queue, hs, day,
                       nextMid, trigLog, nev, hk>>

\* Lines 120-122: the post raises (timeout, network); failed_count grows.
RunnerSendException(r) ==
    LET c == rs[r].camp
    IN  /\ rs[r].pc = "send"
        /\ calls' = [calls EXCEPT ![CampaignBiz(c)] = @ + 1]
        /\ attempted' = attempted \cup {<<c, CurPhone(r)>>}
        /\ rs' = [rs EXCEPT ![r] = NextIter([rs[r] EXCEPT !.failed = @ + 1])]
        /\ UNCHANGED <<contacts, messages, logs, campaign, quota, ttl, queue,
                       hs, day, nextMid, trigLog, nev, hk>>

\* Lines 126-131: the loop ended; Completed, final counters, commit.
RunnerFinish(r) ==
    LET c == rs[r].camp
    IN  /\ rs[r].pc = "finish"
        /\ campaign' = [campaign EXCEPT ![c].status = "Completed",
                                        ![c].completed_at = day + 1,
                                        ![c].total_sent = rs[r].sent,
                                        ![c].total_failed = rs[r].failed]
        /\ messages' = messages \o rs[r].pend
        /\ rs' = [rs EXCEPT ![r] = IdleRunner]
        /\ UNCHANGED <<contacts, logs, quota, ttl, queue, hs, day, nextMid,
                       attempted, trigLog, nev, hk, calls>>

\* self.retry(exc, countdown=60): re-enqueue while retries < max_retries.
RetryJob(c, retries) ==
    IF retries < MaxRetries
    THEN [queue EXCEPT ![<<c, retries + 1>>] = @ + 1]
    ELSE queue

\* Mutant: the Runner carries on to the send as if the increment had passed.
OnStoreFailureOpen(rec) == [rec EXCEPT !.pc = "send"]

\* Line 73 is outside the inner try of lines 97-122: an exception of the
\* counter store leaves the loop and the invocation ends (lines 133-140).
OnStoreFailure(rec) == IdleRunner

\* Lines 133-140: the counter store is unreachable at INCR; the session is
\* rolled back (pending Messages dropped), the campaign set to Error and
\* committed, and the task retried.
RunnerFault(r) ==
    LET c == rs[r].camp
    IN  /\ rs[r].pc = "quota"
        /\ nev < MaxEvents
        /\ nev' = nev + 1
        /\ campaign' = [campaign EXCEPT ![c].status = "Error"]
        /\ queue' = RetryJob(c, rs[r].retries)
        /\ rs' = [rs EXCEPT ![r] = OnStoreFailure(rs[r])]
        /\ UNCHANGED <<contacts, messages, logs, quota, ttl, hs, day, nextMid,
                       attempted, trigLog, hk, calls>>

\* Lines 73-75, 133-140: INCR and EXPIRE are two commands. The first INCR of
\* a key succeeded (it returned 1) and the EXPIRE that follows raises: the
\* counter stays without a time to live, the session is rolled back, the
\* campaign set to Error and committed, and the task retried.
RunnerExpireFault(r) ==
    LET c == rs[r].camp
        k == <<CampaignBiz(c), rs[r].key>>
        current_usage == incr(quota, k)
    IN  /\ rs[r].pc = "quota"
        /\ current_usage = 1
        /\ nev < MaxEvents
        /\ nev' = nev + 1
        /\ quota' = [quota EXCEPT ![k] = current_usage]
        /\ campaign' = [campaign EXCEPT ![c].status = "Error"]
        /\ queue' = RetryJob(c, rs[r].retries)
        /\ rs' = [rs EXCEPT ![r] = IdleRunner]
        /\ UNCHANGED <<contacts, messages, logs, ttl, hs, day, nextMid,
                       attempted, trigLog, hk, calls>>

\* The UTC date changes: get_quota_key yields a new key from now on.
NewDay ==
    /\ nev < MaxEvents
    /\ nev' = nev + 1
    /\ day' = day + 1
    /\ calls' = [b \in Biz |-> 0]
    /\ UNCHANGED <<contacts, messages, logs, campaign, quota, ttl, queue, rs,
                   hs, nextMid, attempted, trigLog, hk>>

\* ------------------------------------------------------ the webhook Ingestor
\* Header and digest strings are sequences of tokens; EQ is the character '='.
SHA256 == <<"sha256">>
SHA1 == <<"sha1">>
EQ == <<"=">>
META_CLIENT_SECRET == "secret"

\* hmac.new(key, msg, sha256).hexdigest(): one token, injective in (key, msg).
HmacHex(key, body) == <<key, body>>

\* str.split('='): the segments between the '=' characters.
RECURSIVE SplitEq(_)
SplitEq(s) ==
    IF \A i \in DOMAIN s : s[i] # EQ THEN <<s>>
    ELSE LET i == CHOOSE j \in DOMAIN s :
                     s[j] = EQ /\ \A k \in 1..(j - 1) : s[k] # EQ
         IN <<SubSeq(s, 1, i - 1)>> \o SplitEq(SubSeq(s, i + 1, Len(s)))

\* verify_signature: "ok" for True, "reject" for False, "error" when the
\* two-name unpacking of signature.split('=') raises ValueError.
verify_signature(payload, signature) ==
    IF signature = <<>> THEN "reject"
    ELSE IF \A i \in DOMAIN signature : signature[i] # EQ THEN "reject"
    ELSE LET parts == SplitEq(signature)
         IN IF Len(parts) # 2 THEN "error"
            ELSE IF parts[1] # <<SHA256>> THEN "reject"
            ELSE IF <<HmacHex(META_CLIENT_SECRET, payload)>> = parts[2]
                 THEN "ok" ELSE "reject"

\* Message texts, as character sequences.
TextHi == <<"h", "i">>
TextStopPadded == <<" ", "s", "t", "O", "p", " ">>
TextStopUpper == <<"S", "T", "O", "P">>

\* str.upper() on the characters in use.
UpperChar(ch) ==
    CASE ch = "s" -> "S" [] ch = "t" -> "T" [] ch = "o" -> "O" [] ch = "p" -> "P"
      [] ch = "h" -> "H" [] ch = "i" -> "I" [] OTHER -> ch

Upper(t) == [i \in DOMAIN t |-> UpperChar(t[i])]

\* str.strip(): drop leading and trailing whitespace.
RECURSIVE Strip(_)
Strip(t) ==
    IF t = <<>> THEN t
    ELSE IF Head(t) = " " THEN Strip(Tail(t))
    ELSE IF t[Len(t)] = " " THEN Strip(SubSeq(t, 1, Len(t) - 1))
    ELSE t

\* Line 94 and line 112: body.strip().upper() == "STOP".
IsStopText(t) == Upper(Strip(t)) = <<"S", "T", "O", "P">>

\* str.capitalize() on the delivery-status words in use.
Capitalize(w) ==
    CASE w = "sent" -> "Sent" [] w = "delivered" -> "Delivered"
      [] w = "read" -> "Read" [] w = "READ" -> "Read"
      [] w = "failed" -> "Failed" [] OTHER -> w

\* value.get("metadata", {}).get("phone_number_id") of a value without
\* metadata (lines 81-82): None.
NoMetadata == "None"

Msg(from, id, text) == [from |-> from, id |-> id, text |-> text]
Stat(id, status) == [id |-> id, status |-> status]
Value(pnid, msgs, stats) == [pnid |-> pnid, messages |-> msgs, statuses |-> stats]

\* The request bodies in use, and json.loads of each: the values of
\* entry[].changes[].value in order.
Bodies == {"PA", "PB", "PC", "PD", "PF", "PS", "PM", "PT", "PX"}

\* Line 66, json.loads(raw_body): does the body parse? "PX" is a body that is
\* not JSON.
JsonLoads(body) == IF body = "PX" THEN "error" ELSE "ok"

Payload(body) ==
    CASE body = "PA" -> <<Value("pn1", <<Msg(1, 1, TextHi)>>, <<>>)>>
      [] body = "PB" -> <<Value("pn1", <<Msg(1, 1, TextHi),
                                         Msg(2, 2, TextStopPadded)>>, <<>>)>>
      [] body = "PC" -> <<Value("pn1", <<Msg(3, 3, TextStopUpper)>>, <<>>)>>
      [] body = "PD" -> <<Value("pnX", <<Msg(1, 4, TextStopUpper)>>, <<>>)>>
      [] body = "PF" -> <<Value("pn1", <<Msg(1, 1, TextHi),
                                         Msg(3, 3, TextStopUpper)>>, <<>>),
                          Value("pn1", <<>>, <<Stat(1, "read")>>)>>
      [] body = "PS" -> <<Value("pn1", <<>>, <<Stat(9, "failed"),
                                                Stat(100, "read")>>)>>
      [] body = "PM" -> <<Value(NoMetadata, <<>>, <<Stat(100, "delivered")>>)>>
      [] body = "PT" -> <<Value("pn2", <<>>, <<Stat(100, "failed")>>)>>
      [] OTHER -> <<>>

\* The X-Hub-Signature-256 headers a request with this body may carry.
SigHeaders(body) ==
    { <<>>,
      <<SHA256, EQ, HmacHex(META_CLIENT_SECRET, body)>>,
      <<SHA256, EQ, HmacHex("guess", body)>>,
      <<SHA256, EQ, HmacHex(META_CLIENT_SECRET, "PA")>>,
      <<SHA1, EQ, HmacHex(META_CLIENT_SECRET, body)>>,
      <<HmacHex(META_CLIENT_SECRET, body)>>,
      <<SHA256, EQ, HmacHex(META_CLIENT_SECRET, body), EQ>> }

NumItems(v) == Len(v.messages) + Len(v.statuses)

\* The loops of lines 78-91 and 130: the position after item (vi, ii). The
\* tenant query of line 85 is outside every try: in a session whose flush has
\* failed it raises and the request ends with a server error.
RECURSIVE EnterValue(_, _, _)
EnterValue(body, v, failed) ==
    IF v > Len(Payload(body)) THEN [pc |-> "commit", vi |-> 0, ii |-> 0]
    ELSE IF failed THEN [pc |-> "abort", vi |-> 0, ii |-> 0]
    ELSE IF BizByPhoneNumberId(Payload(body)[v].pnid) = NoBiz
            \/ NumItems(Payload(body)[v]) = 0
         THEN EnterValue(body, v + 1, failed)
    ELSE [pc |-> IF Len(Payload(body)[v].messages) > 0 THEN "msg" ELSE "stat",
          vi |-> v, ii |-> 1]

NextPos(body, vi, ii, failed) ==
    LET v == Payload(body)[vi]
    IN  IF ii + 1 <= NumItems(v)
        THEN [pc |-> IF ii + 1 <= Len(v.messages) THEN "msg" ELSE "stat",
              vi |-> vi, ii |-> ii + 1]
        ELSE EnterValue(body, vi + 1, failed)

\* Move a request to a position; an abort closes the session (rollback) and
\* answers 500.
Goto(rec, pos) ==
    IF pos.pc = "abort"
    THEN [IdleHandler EXCEPT !.pc = "close", !.body = rec.body,
                             !.signed = rec.signed, !.logged = rec.logged,
                             !.known = rec.known, !.resp = 500]
    ELSE [rec EXCEPT !.pc = pos.pc, !.vi = pos.vi, !.ii = pos.ii]

\* A session whose flush raised: the transaction is rolled back and every
\* later statement raises until rollback() is called.
FailSession(rec) ==
    [rec EXCEPT !.failed = TRUE, !.created = {}, !.optOuts = {},
                !.flushed = <<>>, !.pend = <<>>, !.upd = {}]

Mids(rows) == {rows[i].mid : i \in DOMAIN rows} \ {0}

\* Mutant: the column carries no unique constraint.
UniqueViolationUnchecked(rows, own) == FALSE

\* UNIQUE(meta_message_id) (models.py line 142): do these new rows violate it
\* against the committed rows, the rows this transaction already wrote, or
\* each other?
UniqueViolation(rows, own) ==
    \/ Mids(rows) \cap (Mids(messages) \cup Mids(own)) # {}
    \/ \E i, j \in DOMAIN rows : i < j /\ rows[i].mid # 0 /\ rows[i].mid = rows[j].mid

CurValue(h) == Payload(hs[h].body)[hs[h].vi]
CurBiz(h) == BizByPhoneNumberId(CurValue(h).pnid)
CurMsg(h) == CurValue(h).messages[hs[h].ii]
CurStat(h) == CurValue(h).statuses[hs[h].ii - Len(CurValue(h).messages)]

InMessage(b, p, mid) ==
    [biz |-> b, phone |-> p, camp |-> NoCampaign, mid |-> mid,
     dir |-> "In", status |-> "Delivered"]

\* The claim of a correct signature: 'sha256=' followed by the HMAC-SHA256 of
\* the raw body under the shared secret.
CorrectlySigned(body, sig) ==
    sig = <<SHA256, EQ, HmacHex(META_CLIENT_SECRET, body)>>

\* Lines 59-66: read header and body, verify, reject (403, or 500 when
\* verify_signature raises), then parse (500 when json.loads raises).
\* "signed" records whether the header was the correct one,
\* "known" the provider ids stored when the request arrived.
WebhookPost(h, body, sig) ==
    /\ hs[h].pc = "idle"
    /\ \A g \in Handlers : hs[g].pc = "idle" => h <= g
    /\ nev < MaxEvents
    /\ nev' = nev + 1
    /\ LET v == verify_signature(body, sig)
           parsed == v = "ok" /\ JsonLoads(body) = "ok"
       IN hs' = [hs EXCEPT ![h] =
                   [IdleHandler EXCEPT
                      !.pc = IF parsed THEN "audit" ELSE "close",
                      !.body = IF parsed THEN body ELSE "none",
                      !.signed = CorrectlySigned(body, sig),
                      !.known = IF parsed THEN Mids(messages) ELSE {},
                      !.resp = IF parsed THEN 0
                               ELSE IF v = "reject" THEN 403 ELSE 500]]
    /\ UNCHANGED <<contacts, messages, logs, campaign, quota, ttl, queue, rs,
                   day, nextMid, attempted, trigLog, hk, calls>>

\* Lines 69-77: store the audit row and commit; then enter the first value.
WebhookAudit(h) ==
    /\ hs[h].pc = "audit"
    /\ logs' = Append(logs, hs[h].body)
    /\ hs' = [hs EXCEPT ![h] =
                Goto([hs[h] EXCEPT !.logged = 1], EnterValue(hs[h].body, 1, FALSE))]
    /\ UNCHANGED <<contacts, messages, campaign, quota, ttl, queue, rs, day,
                   nextMid, attempted, trigLog, nev, hk, calls>>

\* Lines 92-126, one inbound message, inside its try: find the contact or
\* create and flush it (the flush writes every pending row), latch the
\* opt-out, add the In Message to the session. In a session whose flush has
\* failed the contact query raises and the item is skipped.
WebhookMessage(h) ==
    LET k == <<CurBiz(h), CurMsg(h).from>>
        rec == hs[h]
        found == contacts[k] # NoContact \/ k \in rec.created
        flushFails == UniqueViolation(rec.pend, rec.flushed)
        afterFlush == IF found THEN rec
                      ELSE [rec EXCEPT !.created = @ \cup {k},
                                       !.flushed = @ \o rec.pend, !.pend = <<>>]
        afterStop == IF IsStopText(CurMsg(h).text)
                     THEN [afterFlush EXCEPT !.optOuts = @ \cup {k}]
                     ELSE afterFlush
        afterAdd == [afterStop EXCEPT
                        !.pend = Append(@, InMessage(k[1], k[2], CurMsg(h).id))]
    IN  /\ rec.pc = "msg"
        /\ hs' = [hs EXCEPT ![h] =
                    IF rec.failed
                    THEN Goto(rec, NextPos(rec.body, rec.vi, rec.ii, TRUE))
                    ELSE IF ~found /\ flushFails
                    THEN Goto(FailSession(rec), NextPos(rec.body, rec.vi, rec.ii, TRUE))
                    ELSE Goto(afterAdd, NextPos(rec.body, rec.vi, rec.ii, FALSE))]
        /\ UNCHANGED <<contacts, messages, logs, campaign, quota, ttl, queue,
                       rs, day, nextMid, attempted, trigLog, nev, hk, calls>>

\* Mutant: the lookup matches whatever row comes first.
StatusHitAny(rows, id) == DOMAIN rows

\* Lines 135-137: the rows whose meta_message_id equals the update's id.
StatusHit(rows, id) == {i \in DOMAIN rows : rows[i].mid = id}

\* Lines 131-143: one status update; the Message is looked up by provider id
\* alone, among the committed rows and the rows this transaction wrote.
WebhookStatus(h) ==
    LET rec == hs[h]
        all == messages \o rec.flushed
        hit == StatusHit(all, CurStat(h).id)
        first == CHOOSE i \in hit : \A j \in hit : i <= j
        new_status == Capitalize(CurStat(h).status)
        updated == [rec EXCEPT !.upd = {u \in @ : u[1] # first} \cup {<<first, new_status>>}]
    IN  /\ rec.pc = "stat"
        /\ hs' = [hs EXCEPT ![h] =
                    IF rec.failed \/ hit = {}
                    THEN Goto(rec, NextPos(rec.body, rec.vi, rec.ii, rec.failed))
                    ELSE Goto(updated, NextPos(rec.body, rec.vi, rec.ii, FALSE))]
        /\ UNCHANGED <<contacts, messages, logs, campaign, quota, ttl, queue,
                       rs, day, nextMid, attempted, trigLog, nev, hk, calls>>

\* The rows of a committing transaction with its status overwrites applied.
ApplyUpdates(rows, upd) ==
    [i \in DOMAIN rows |->
        IF \E u \in upd : u[1] = i
        THEN [rows[i] EXCEPT !.status = (CHOOSE u \in upd : u[1] = i)[2]]
        ELSE rows[i]]

\* Mutant: every stored contact the batch did not opt out is written back
\* with the default status.
CommittedStatusReset(rec, k) ==
    IF k \in rec.optOuts THEN "Opt-out"
    ELSE IF k \in rec.created \/ contacts[k] # NoContact THEN "Active"
    ELSE contacts[k]

\* The status of contact k after this session's commit: Opt-out when the
\* batch latched it (line 113), the server default Active for a contact the
\* batch created (lines 103-108, models.py line 81), otherwise untouched.
CommittedStatus(rec, k) ==
    IF k \in rec.optOuts THEN "Opt-out"
    ELSE IF k \in rec.created THEN "Active"
    ELSE contacts[k]

\* Mutant: the commit goes through whatever the flush raises.
CommitSucceedsAlways(rec) == TRUE

\* Does the final commit of this session succeed?
CommitSucceeds(rec) == ~rec.failed /\ ~UniqueViolation(rec.pend, rec.flushed)

\* Lines 145-151: the final commit (all of the batch or, when the flush
\* raises, rollback and nothing), then the fixed acknowledgement.
WebhookCommit(h) ==
    LET rec == hs[h]
    IN  /\ rec.pc = "commit"
        /\ IF CommitSucceeds(rec)
           THEN /\ contacts' = [k \in DOMAIN contacts |-> CommittedStatus(rec, k)]
                /\ messages' = ApplyUpdates(messages \o rec.flushed, rec.upd) \o rec.pend
           ELSE UNCHANGED <<contacts, messages>>
        /\ hs' = [hs EXCEPT ![h] =
                    [IdleHandler EXCEPT !.pc = "close", !.body = rec.body,
                                        !.signed = rec.signed,
                                        !.logged = rec.logged,
                                        !.known = rec.known, !.resp = 200]]
        /\ UNCHANGED <<logs, campaign, quota, ttl, queue, rs, day, nextMid,
                       attempted, trigLog, nev, hk, calls>>

\* get_db's finally: the response has been sent; the session is closed.
WebhookClose(h) ==
    /\ hs[h].pc = "close"
    /\ hs' = [hs EXCEPT ![h] = IdleHandler]
    /\ UNCHANGED <<contacts, messages, logs, campaign, quota, ttl, queue, rs,
                   day, nextMid, attempted, trigLog, nev, hk, calls>>

\* ------------------------------------------------- the webhook handshake
\* verify_meta_webhook reads only its query parameters and the configured
\* token and touches no stored state; it is explored on its own.
META_WEBHOOK_VERIFY_TOKEN == "verify-token"
Modes == {"subscribe", "unsubscribe", "None"}
Tokens == {META_WEBHOOK_VERIFY_TOKEN, "wrong", "None"}
ChallengeChars == {"0", "1", "7", "a"}
Challenges == UNION {[1..n -> ChallengeChars] : n \in 0..MaxChallengeLen}

DigitChars == <<"0", "1", "2", "3", "4", "5", "6", "7", "8", "9">>

\* int(challenge) raises ValueError unless the text is a decimal numeral.
IsDecimal(s) ==
    s # <<>> /\ \A i \in DOMAIN s : \E d \in DOMAIN DigitChars : DigitChars[d] = s[i]

DigitVal(ch) == (CHOOSE d \in DOMAIN DigitChars : DigitChars[d] = ch) - 1

\* int(): the number a decimal numeral denotes.
RECURSIVE IntOf(_)
IntOf(s) ==
    IF s = <<>> THEN 0
    ELSE IntOf(SubSeq(s, 1, Len(s) - 1)) * 10 + DigitVal(s[Len(s)])

\* The JSON rendering of an int in the response body.
RECURSIVE Decimal(_)
Decimal(n) ==
    IF n < 10 THEN <<DigitChars[n + 1]>>
    ELSE Decimal(n \div 10) \o <<DigitChars[(n % 10) + 1]>>

\* Lines 40-51: 403 unless mode is subscribe and the token matches; then
\* int(challenge), a server error when that raises.
HandshakeResponse(mode, token, challenge) ==
    IF mode = "subscribe" /\ token = META_WEBHOOK_VERIFY_TOKEN
    THEN IF IsDecimal(challenge)
         THEN [status |-> 200, body |-> Decimal(IntOf(challenge))]
         ELSE [status |-> 500, body |-> <<>>]
    ELSE [status |-> 403, body |-> <<>>]

verify_meta_webhook(mode, token, challenge) ==
    /\ hk' = [mode |-> mode, token |-> token, challenge |-> challenge,
              status |-> HandshakeResponse(mode, token, challenge).status,
              body |-> HandshakeResponse(mode, token, challenge).body]
    /\ UNCHANGED <<contacts, messages, logs, campaign, quota, ttl, queue, rs,
                   hs, day, nextMid, attempted, trigLog, nev, calls>>

HandshakeNext ==
    \E mode \in Modes, token \in Tokens, challenge \in Challenges :
        verify_meta_webhook(mode, token, challenge)

WebhookNext ==
    \/ \E h \in Handlers, b \in Bodies : \E s \in SigHeaders(b) : WebhookPost(h, b, s)
    \/ \E h \in Handlers : WebhookAudit(h)
    \/ \E h \in Handlers : WebhookMessage(h)
    \/ \E h \in Handlers : WebhookStatus(h)
    \/ \E h \in Handlers : WebhookCommit(h)
    \/ \E h \in Handlers : WebhookClose(h)

RunnerSteps ==
    \/ \E r \in Runners : RunnerRefresh(r)
    \/ \E r \in Runners : RunnerExists(r)
    \/ \E r \in Runners : RunnerQuota(r)
    \/ \E r \in Runners : RunnerSendOk(r)
    \/ \E r \in Runners : RunnerSendRateLimited(r)
    \/ \E r \in Runners, code \in FailureCodes : RunnerSendFailed(r, code)
    \/ \E r \in Runners : RunnerSendException(r)
    \/ \E r \in Runners : RunnerFinish(r)
    \/ \E r \in Runners : RunnerFault(r)
    \/ \E r \in Runners : RunnerExpireFault(r)
    \/ NewDay

RunnerNext ==
    \/ \E c \in Campaigns : trigger_campaign_send(c)
    \/ \E r \in Runners, j \in Jobs : RunnerStart(r, j)
    \/ RunnerSteps

Next == RunnerNext \/ WebhookNext

Spec == Init /\ [][Next]_vars

\* The Runner and the trigger endpoint alone, and the Ingestor alone.
SpecRunner == Init /\ [][RunnerNext]_vars
SpecWebhook == Init /\ [][WebhookNext]_vars
SpecHandshake == Init /\ [][HandshakeNext]_vars

\* ------------------------------------------------------------------ claims
RowsWithMid(mid) == {i \in DOMAIN messages : messages[i].mid = mid}
RowsOf(c, p) ==
    {i \in DOMAIN messages :
        /\ messages[i].camp = c
        /\ messages[i].biz = CampaignBiz(c)
        /\ messages[i].phone = p}
TimesLogged(body) == Cardinality({i \in DOMAIN logs : logs[i] = body})
AttemptedOf(c) == {p \in Phones : <<c, p>> \in attempted}

\* C1: in every reachable state of the ledger no two Message rows carry the
\* same provider message id, whatever the interleaving of webhook deliveries
\* and Runner sends.
C1_UniqueProviderMessageId ==
    \A i, j \in DOMAIN messages :
        (i # j /\ messages[i].mid # 0) => messages[i].mid # messages[j].mid

\* C1 witness: the payload PA was verified and processed twice and exactly one
\* In Message carries its provider id.
C1_Witness ==
    /\ TimesLogged("PA") = 2
    /\ \A h \in Handlers : hs[h].pc = "idle"
    /\ Cardinality(RowsWithMid(1)) = 1
    /\ \A i \in RowsWithMid(1) : messages[i].dir = "In"

\* C2: a Runner past the per-iteration re-fetch of a contact (and so every
\* Runner that invokes the send call or creates an Out Message) holds a
\* contact whose committed status at that re-fetch was Active; a contact
\* whose Opt-out was committed before the re-fetch is skipped.
C2_NoSendToOptOut ==
    \A r \in Runners :
        rs[r].pc \in {"exists", "quota", "send"} =>
            /\ rs[r].seen = "Active"
            /\ rs[r].cstat = "Active"

\* C2 witness: a contact of a running invocation's list opted out while the
\* invocation ran, the loop has passed it, and no send was attempted for it.
C2_Witness ==
    \E r \in Runners :
        /\ rs[r].pc # "idle"
        /\ \E i \in 1..(rs[r].idx - 1) :
              /\ i <= Len(rs[r].list)
              /\ contacts[<<CampaignBiz(rs[r].camp), rs[r].list[i]>>] = "Opt-out"
              /\ <<rs[r].camp, rs[r].list[i]>> \notin attempted

\* C3: once a verified payload has been processed, every inbound message of
\* it from a resolvable tenant whose text is "stop" (trimmed, case-folded)
\* has left its sender's Contact existing with status Opt-out.
C3_StopOptsOut ==
    \A h \in Handlers :
        (hs[h].pc = "close" /\ hs[h].resp = 200) =>
            \A vi \in DOMAIN Payload(hs[h].body) :
                LET v == Payload(hs[h].body)[vi]
                IN  BizByPhoneNumberId(v.pnid) # NoBiz =>
                        \A mi \in DOMAIN v.messages :
                            IsStopText(v.messages[mi].text) =>
                                contacts[<<BizByPhoneNumberId(v.pnid),
                                           v.messages[mi].from>>] = "Opt-out"

\* C4: over trigger, run, pause and re-trigger of one campaign at most one
\* Message row exists per (campaign, contact): a contact that already has a
\* Message of the campaign is not sent to again.
C4_OneMessagePerCampaignContact ==
    \A c \in Campaigns, p \in Phones : Cardinality(RowsOf(c, p)) <= 1

\* C5: whenever a campaign is Completed, total_sent + total_failed equals
\* the number of distinct contacts a send was attempted for over all its run
\* segments.
C5_CompletedCountersMatchAttempts ==
    \A c \in Campaigns :
        campaign[c].status = "Completed" =>
            campaign[c].total_sent + campaign[c].total_failed
                = Cardinality(AttemptedOf(c))

\* C6: a Runner iteration whose quota increment returns more than the daily
\* quota (the store answering every command) performs no send, sets the campaign to Paused with the quota
\* reason and ends the run; an increment returning at most the quota is not
\* denied and goes on to the send.
C6_QuotaDenial ==
    [][\A r \in Runners :
          (rs[r].pc = "quota" /\ rs'[r] # rs[r] /\ quota' # quota /\ nev' = nev) =>
              LET c == rs[r].camp
                  u == quota'[<<CampaignBiz(c), rs[r].key>>]
              IN  IF u > DailyQuota
                  THEN /\ rs'[r].pc = "idle"
                       /\ campaign'[c].status = "Paused"
                       /\ campaign'[c].status_reason = "Quota reached."
                       /\ attempted' = attempted
                       /\ nextMid' = nextMid
                  ELSE /\ rs'[r].pc = "send"
                       /\ campaign'[c] = campaign[c]]_vars

\* C6 witness: the increment after DailyQuota sends paused the campaign.
C6_Witness ==
    \E c \in Campaigns :
        /\ campaign[c].status = "Paused"
        /\ campaign[c].status_reason = "Quota reached."
        /\ quota[<<CampaignBiz(c), 0>>] = DailyQuota + 1
        /\ Cardinality(AttemptedOf(c)) = DailyQuota

\* The transition table of the campaign state machine.
StatusEdges ==
    { <<"Draft", "Queued">>, <<"Queued", "Running">>, <<"Running", "Paused">>,
      <<"Running", "Completed">>, <<"Running", "Error">>, <<"Paused", "Queued">> }

\* C7: every change of a campaign's status is one of the edges of the
\* state machine; Completed and Error are terminal.
C7_OnlyTableEdges ==
    [][\A c \in Campaigns :
          campaign'[c].status # campaign[c].status =>
              <<campaign[c].status, campaign'[c].status>> \in StatusEdges]_vars

\* C8: a trigger sets Queued and enqueues a job only on a Draft or Paused
\* campaign; on Queued, Running or Completed it is rejected or a no-op.
C8_TriggerOnlyFromDraftOrPaused == trigLog \subseteq {"Draft", "Paused"}

\* C9: a webhook POST whose signature header is not the correct one is
\* answered with the authentication error and never gets past verification
\* (nothing parsed, nothing persisted).
C9_BadSignatureRejected ==
    \A h \in Handlers :
        (hs[h].pc # "idle" /\ ~hs[h].signed) =>
            (hs[h].pc = "close" /\ hs[h].resp = 403)

\* C10: the acknowledgement of a correctly-signed POST is returned before the
\* persistence work for its payload: a request whose audit entry has been
\* written has already been answered.
C10_AckBeforePersistence ==
    \A h \in Handlers :
        (hs[h].signed /\ hs[h].pc \in {"msg", "stat", "commit"}) => hs[h].resp = 200
\* C11: a payload that passes signature verification has exactly one audit
\* row, stored before its items are processed and whatever becomes of parsing
\* and applying them; a payload that fails verification has none.
C11_OneAuditRowPerVerifiedPayload ==
    \A h \in Handlers :
        /\ (hs[h].signed /\ hs[h].pc \in {"msg", "stat", "commit", "close"})
              => hs[h].logged = 1
        /\ (~hs[h].signed /\ hs[h].pc # "idle") => hs[h].logged = 0

\* C12: after a verified payload was processed, every Message that was
\* stored when the payload arrived and whose provider id a status update of
\* the payload names carries the capitalized incoming status, with or
\* without routing metadata in the value.
C12_StatusOverwritten ==
    \A h \in Handlers :
        (hs[h].pc = "close" /\ hs[h].signed /\ hs[h].resp = 200) =>
            \A v \in DOMAIN Payload(hs[h].body) :
                \A i \in DOMAIN Payload(hs[h].body)[v].statuses :
                    LET s == Payload(hs[h].body)[v].statuses[i]
                    IN  s.id \in hs[h].known =>
                            \A j \in RowsWithMid(s.id) :
                                messages[j].status = Capitalize(s.status)

\* C13: a status update whose id no stored Message carries creates no row,
\* changes no row and does not fail the batch: the session is left as it
\* was and the request goes on to its next item or to its commit.
C13_UnknownStatusDropped ==
    [][\A h \in Handlers :
          (/\ hs[h].pc = "stat"
           /\ hs'[h] # hs[h]
           /\ ~hs[h].failed
           /\ CurStat(h).id \notin Mids(messages) \cup Mids(hs[h].flushed))
          => /\ messages' = messages
             /\ hs'[h].pend = hs[h].pend
             /\ hs'[h].flushed = hs[h].flushed
             /\ hs'[h].upd = hs[h].upd
             /\ hs'[h].created = hs[h].created
             /\ hs'[h].optOuts = hs[h].optOuts
             /\ ~hs'[h].failed
             /\ hs'[h].pc \in {"msg", "stat", "commit"}]_vars

\* A request with an unknown id followed by a known one was acknowledged, the
\* known Message carries the new status and no row carries the unknown id.
C13_Witness ==
    \E h \in Handlers :
        /\ hs[h].pc = "close" /\ hs[h].body = "PS" /\ hs[h].resp = 200
        /\ RowsWithMid(9) = {}
        /\ RowsWithMid(100) # {}
        /\ \A j \in RowsWithMid(100) : messages[j].status = "Read"
        /\ Len(messages) = 1

\* C14: the failure of one item of a batch (an inbound message whose provider
\* id is already stored) does not keep the other items from being persisted:
\* after the request every inbound message of a resolvable value whose id was
\* not stored when the request arrived has its In Message.
C14_ValidItemsPersisted ==
    \A h \in Handlers :
        (hs[h].pc = "close" /\ hs[h].signed /\ hs[h].resp = 200) =>
            \A v \in DOMAIN Payload(hs[h].body) :
                LET val == Payload(hs[h].body)[v]
                IN  BizByPhoneNumberId(val.pnid) # NoBiz =>
                        \A i \in DOMAIN val.messages :
                            val.messages[i].id \notin hs[h].known =>
                                \E j \in RowsWithMid(val.messages[i].id) :
                                    messages[j].dir = "In"

\* C15: a batch is all or nothing. Processing its items writes nothing to
\* the committed ledger, and a final commit that fails (the session is
\* already failed, or the flush violates the unique provider id) leaves
\* contacts and messages as they were.
C15_FailedCommitPersistsNothing ==
    [][\A h \in Handlers :
          /\ (hs[h].pc \in {"msg", "stat"} /\ hs'[h] # hs[h])
                => (contacts' = contacts /\ messages' = messages)
          /\ (/\ hs[h].pc = "commit"
               /\ hs'[h] # hs[h]
               /\ (hs[h].failed \/ UniqueViolation(hs[h].pend, hs[h].flushed)))
                => (contacts' = contacts /\ messages' = messages)]_vars

\* A batch that had latched an opt-out and added a new In Message was rolled
\* back: the contact is still Active and the Message is not stored.
C15_Witness ==
    \E h \in Handlers :
        /\ hs[h].pc = "close" /\ hs[h].body = "PB" /\ hs[h].resp = 200
        /\ 1 \in hs[h].known
        /\ contacts[<<"b1", 2>>] = "Active"
        /\ RowsWithMid(2) = {}
        /\ Cardinality(RowsWithMid(1)) = 1

C17_OptOutLatch ==
    [][\A k \in DOMAIN contacts :
          contacts[k] = "Opt-out" => contacts'[k] = "Opt-out"]_vars

\* A contact opted out earlier sent a batch again, that batch was rolled
\* back, and the contact is still Opt-out.
C17_Witness ==
    \E h \in Handlers :
        /\ hs[h].pc = "close" /\ hs[h].body = "PF" /\ hs[h].resp = 200
        /\ 3 \in hs[h].known
        /\ contacts[<<"b1", 3>>] = "Opt-out"
        /\ RowsWithMid(1) = {}

\* C18: the quota counter moves only by atomic increments that return the
\* new value: a step changes at most one counter and only by +1, and every
\* quota step of a Runner that reaches the store adds exactly one and hands
\* the Runner the new value, so no increment is lost and no value is
\* returned twice.
C18_AtomicIncrement ==
    [][/\ \A k \in DOMAIN quota : quota'[k] \in {quota[k], quota[k] + 1}
       /\ Cardinality({k \in DOMAIN quota : quota'[k] # quota[k]}) <= 1
       /\ \A r \in Runners :
             (rs[r].pc = "quota" /\ rs'[r] # rs[r] /\ nev' = nev) =>
                 LET k == <<CampaignBiz(rs[r].camp), rs[r].key>>
                 IN  /\ quota'[k] = quota[k] + 1
                     /\ rs'[r].pc = "send" => rs'[r].usage = quota'[k]]_vars

\* Two Runners of the tenant incremented the same day's counter while both
\* were running: one holds the value 1, the counter stands at 2.
C18_Witness ==
    \E r \in Runners :
        /\ rs[r].pc = "send"
        /\ rs[r].usage = 1
        /\ quota[<<CampaignBiz(rs[r].camp), rs[r].key>>] = 2

\* C19: the quota tracker fails closed: a quota step at which the counter
\* store cannot be reached (no increment happens) makes no send for that
\* contact and ends that run, and a send is only ever made by a Runner that
\* holds a value the store returned for this iteration.
C19_FailClosed ==
    [][\A r \in Runners :
          /\ (rs[r].pc = "quota" /\ rs'[r] # rs[r] /\ quota' = quota)
                => /\ rs'[r].pc = "idle"
                   /\ attempted' = attempted
                   /\ nextMid' = nextMid
          /\ (rs[r].pc = "send" /\ rs'[r] # rs[r])
                => (rs[r].usage >= 1 /\ rs[r].usage <= DailyQuota)]_vars

\* A run that had sent to one contact met an unreachable store at the next:
\* the campaign is in Error, no Runner is active, a retry is queued and no
\* second contact was attempted.
C19_Witness ==
    /\ \A r \in Runners : rs[r].pc = "idle"
    /\ campaign["c1"].status = "Error"
    /\ queue[<<"c1", 1>>] = 1
    /\ attempted = {<<"c1", 1>>}

\* C20: every change of a campaign into Paused or Error sets status_reason
\* to a description of its cause: it is not left unset, and it names quota
\* exhaustion exactly when the change was made by the quota check.
C20_ReasonOnPauseOrError ==
    [][\A c \in Campaigns :
          (campaign'[c].status \in {"Paused", "Error"} /\ campaign'[c] # campaign[c])
          => /\ campaign'[c].status_reason # ""
             /\ campaign'[c].status_reason = "Quota reached."
                  <=> \E r \in Runners : /\ rs[r].camp = c
                                         /\ rs[r].pc = "quota"
                                         /\ rs'[r] # rs[r]
                                         /\ quota' # quota]_vars

\* C21: every send step of a Runner has one of three shapes. Rate limited:
\* the campaign becomes Paused and the invocation ends. Success: sent_count
\* grows by one and exactly one Out Message with the provider's id is
\* recorded for the contact. Any other failure: failed_count grows by one, no
\* Message is recorded, and the loop goes on with the next contact. On
\* completion the two counts are stored as total_sent and total_failed.
C21_SendClassified ==
    [][\A r \in Runners :
          /\ (rs[r].pc = "send" /\ rs'[r] # rs[r]) =>
                LET c == rs[r].camp
                    rows == messages \o rs[r].pend
                    rows2 == messages' \o rs'[r].pend
                    goesOn == /\ rs'[r].idx = rs[r].idx + 1
                              /\ rs'[r].pc \in {"refresh", "finish"}
                              /\ campaign' = campaign
                IN  \/ /\ campaign'[c].status = "Paused"
                       /\ rs'[r].pc = "idle"
                       /\ nextMid' = nextMid
                    \/ /\ goesOn
                       /\ rs'[r].sent = rs[r].sent + 1
                       /\ rs'[r].failed = rs[r].failed
                       /\ nextMid' = nextMid + 1
                       /\ rows2 = Append(rows,
                              [biz |-> CampaignBiz(c), phone |-> CurPhone(r),
                               camp |-> c, mid |-> nextMid, dir |-> "Out",
                               status |-> "Sent"])
                    \/ /\ goesOn
                       /\ rs'[r].sent = rs[r].sent
                       /\ rs'[r].failed = rs[r].failed + 1
                       /\ nextMid' = nextMid
                       /\ rows2 = rows
          /\ (rs[r].pc = "finish" /\ rs'[r] # rs[r]) =>
                /\ campaign'[rs[r].camp].total_sent = rs[r].sent
                /\ campaign'[rs[r].camp].total_failed = rs[r].failed]_vars

\* A Runner whose first send failed went on to its second contact with
\* failed_count 1 and no Message recorded.
C21_Witness ==
    \E r \in Runners :
        /\ rs[r].pc = "refresh" /\ rs[r].idx = 2
        /\ rs[r].failed = 1 /\ rs[r].sent = 0
        /\ rs[r].pend = <<>>
        /\ messages = <<>>
        /\ attempted = {<<rs[r].camp, rs[r].list[1]>>}

\* C22: a campaign is settled into Error only when the retry budget of the
\* whole run is used up: while the campaign is in Error no retry of its run
\* is waiting, so it is not run again.
C22_ErrorOnlyAfterRetries ==
    \A c \in Campaigns :
        campaign[c].status = "Error" =>
            \A n \in 1..MaxRetries : queue[<<c, n>>] = 0

\* C23: a send answered with an authentication failure (401, the tenant's
\* credential is invalid) puts the campaign into Error, ends the run and
\* schedules no retry; it is not counted as a failed send with the loop
\* going on.
C23_InvalidCredentialIsError ==
    [][\A r \in Runners :
          (rs[r].pc = "send" /\ rs'[r].code = 401) =>
              /\ campaign'[rs[r].camp].status = "Error"
              /\ rs'[r].pc = "idle"
              /\ queue' = queue]_vars

\* C24: started_at is written once, on the first entry into Running; once
\* set, no later entry into Running (resume, retry) changes it.
C24_StartedAtWrittenOnce ==
    [][\A c \in Campaigns :
          campaign[c].started_at # 0 =>
              campaign'[c].started_at = campaign[c].started_at]_vars

\* C25: every quota counter that exists carries the expiry set by its first
\* increment; no reachable state holds a counter without an expiry.
C25_CounterHasExpiry ==
    \A k \in DOMAIN quota : quota[k] > 0 => ttl[k] = QuotaTtl

\* C26: the periodic commit of a run persists the counters: after a send
\* step that reaches the commit of every CommitEvery contacts, the stored
\* total_sent and total_failed equal the run's counts, so the stored
\* counters never lag the processed contacts by more than CommitEvery.
C26_CountersPersistedPeriodically ==
    [][\A r \in Runners :
          ( /\ rs[r].pc = "send"
            /\ rs'[r].pc \in {"refresh", "finish"}
            /\ (rs'[r].sent # rs[r].sent \/ rs'[r].code # 0)
            /\ PeriodicCommit(rs'[r].sent) )
          => /\ campaign'[rs[r].camp].total_sent = rs'[r].sent
             /\ campaign'[rs[r].camp].total_failed = rs'[r].failed]_vars

\* C27: for every tenant and UTC day, the send calls made on that day by all
\* Runners of the tenant never exceed the tenant's daily quota.
C27_SendsWithinDailyQuota ==
    \A b \in Biz : calls[b] <= DailyQuota

\* C28: with Runner invocations of one campaign running concurrently, a
\* send accepted for a contact is never a second one: at that step no Out
\* Message of the (campaign, contact) is stored, or held uncommitted by any
\* invocation.
C28_NoConcurrentDuplicateSend ==
    [][\A r \in Runners :
          (rs[r].pc = "send" /\ rs'[r] # rs[r] /\ nextMid' # nextMid) =>
              LET c == rs[r].camp
                  p == CurPhone(r)
              IN  /\ ~MessageExists(c, p)
                  /\ \A q \in Runners : \A i \in DOMAIN rs[q].pend :
                         ~(rs[q].pend[i].camp = c /\ rs[q].pend[i].phone = p)]_vars

\* C29: when a Runner invocation ends, however it ends, every send the
\* provider accepted during it has its Out Message stored: no accepted send
\* is still uncommitted, or dropped, at the invocation's last step.
C29_AcceptedSendsStoredAtEnd ==
    [][\A r \in Runners :
          (rs[r].pc # "idle" /\ rs'[r].pc = "idle") =>
              \A i \in DOMAIN rs[r].pend :
                  \E j \in DOMAIN messages' :
                      /\ messages'[j].mid = rs[r].pend[i].mid
                      /\ messages'[j].camp = rs[r].camp
                      /\ messages'[j].phone = rs[r].pend[i].phone]_vars

\* C30: status updates are tenant-isolated: the status of a stored Message
\* changes only through a status update that names its provider id and
\* arrived in a webhook value routed to the tenant owning the Message.
C30_StatusUpdatesTenantIsolated ==
    [][\A i \in DOMAIN messages :
          (i \in DOMAIN messages' /\ messages'[i].status # messages[i].status) =>
              \E h \in Handlers :
                  /\ hs[h].pc = "commit"
                  /\ \E vi \in DOMAIN Payload(hs[h].body) :
                        LET v == Payload(hs[h].body)[vi]
                        IN  /\ BizByPhoneNumberId(v.pnid) = messages[i].biz
                            /\ \E si \in DOMAIN v.statuses :
                                  v.statuses[si].id = messages[i].mid]_vars

====
